---- MODULE Spec2Model ----
(***************************************************************************)
(* dfctl-go: the go sdk manager of src/main.go.                            *)
(*                                                                         *)
(* The model is the command surface of the program (install, use, list,    *)
(* current) run by defaultExecutor() on a POSIX file system, with the      *)
(* remote server's response and the outcome of each system call as the     *)
(* environment's choices.                                                  *)
(*                                                                         *)
(* A Go string is a sequence of one-character strings, so that Split,      *)
(* Join, Clean, Base and ParseVersion are computed as the code computes    *)
(* them.                                                                   *)
(*                                                                         *)
(* What the model takes as given:                                          *)
(*  - e.Fs is the *afero.OsFs of defaultExecutor(), so the type assertions *)
(*    of Use and current hold and errOnlyOsFsSupported is never returned;  *)
(*  - a command gets the number of arguments it expects;                   *)
(*  - an archive holds directories and regular files; of an entry's mode   *)
(*    the owner's write bit is kept, and the umask leaves it as it is;     *)
(*  - version strings have no pre-release and no build metadata.           *)
(***************************************************************************)
EXTENDS Integers, Sequences, FiniteSets, TLC

(***************************************************************************)
(* strings                                                                 *)
(***************************************************************************)
Sep == "/"

Digits == <<"0", "1", "2", "3", "4", "5", "6", "7", "8", "9">>

IsDigit(c) == \E i \in 1..10 : Digits[i] = c

DigitVal(c) == (CHOOSE i \in 1..10 : Digits[i] = c) - 1

\* strings.Split(s, sep) for a one-character sep: the fields between
\* separators, always at least one
RECURSIVE SplitAcc(_, _, _, _)
SplitAcc(s, sep, cur, acc) ==
    IF s = <<>> THEN Append(acc, cur)
    ELSE IF Head(s) = sep THEN SplitAcc(Tail(s), sep, <<>>, Append(acc, cur))
    ELSE SplitAcc(Tail(s), sep, Append(cur, Head(s)), acc)

SplitOn(s, sep) == SplitAcc(s, sep, <<>>, <<>>)

Split(s) == SplitOn(s, Sep)

\* strings.Join(parts, "/")
RECURSIVE JoinSep(_)
JoinSep(parts) ==
    IF parts = <<>> THEN <<>>
    ELSE IF Len(parts) = 1 THEN parts[1]
    ELSE parts[1] \o <<Sep>> \o JoinSep(Tail(parts))

\* the stack of path elements Clean keeps: "." dropped, ".." pops an element,
\* is dropped at the root of a rooted path and kept in front of a relative one
RECURSIVE CleanParts(_, _, _)
CleanParts(parts, rooted, out) ==
    IF parts = <<>> THEN out
    ELSE LET p == Head(parts)
             rest == Tail(parts)
         IN  IF p = <<>> \/ p = <<".">> THEN CleanParts(rest, rooted, out)
             ELSE IF p = <<".", ".">>
             THEN IF out # <<>> /\ out[Len(out)] # <<".", ".">>
                  THEN CleanParts(rest, rooted, SubSeq(out, 1, Len(out) - 1))
                  ELSE IF rooted THEN CleanParts(rest, rooted, out)
                  ELSE CleanParts(rest, rooted, Append(out, p))
             ELSE CleanParts(rest, rooted, Append(out, p))

\* path.Clean / filepath.Clean on a POSIX system
Clean(s) ==
    IF s = <<>> THEN <<".">>
    ELSE LET rooted == (Head(s) = Sep)
             body == JoinSep(CleanParts(Split(s), rooted, <<>>))
         IN  IF rooted THEN <<Sep>> \o body
             ELSE IF body = <<>> THEN <<".">>
             ELSE body

\* path.Join / filepath.Join of two elements: empty elements are ignored, the
\* rest joined with a separator and cleaned; all empty gives ""
Join(a, b) ==
    IF a = <<>> /\ b = <<>> THEN <<>>
    ELSE IF a = <<>> THEN Clean(b)
    ELSE IF b = <<>> THEN Clean(a)
    ELSE Clean(a \o <<Sep>> \o b)

RECURSIVE StripTrailingSep(_)
StripTrailingSep(s) ==
    IF s # <<>> /\ s[Len(s)] = Sep THEN StripTrailingSep(SubSeq(s, 1, Len(s) - 1))
    ELSE s

\* path.Base
Base(s) ==
    IF s = <<>> THEN <<".">>
    ELSE LET t == StripTrailingSep(s)
         IN  IF t = <<>> THEN <<Sep>>
             ELSE LET parts == Split(t) IN parts[Len(parts)]

\* the directory holding a cleaned absolute path
Dir(p) ==
    LET parts == Split(p)
        d == JoinSep(SubSeq(parts, 1, Len(parts) - 1))
    IN  IF d = <<>> THEN <<Sep>> ELSE d

(***************************************************************************)
(* versions                                                                *)
(***************************************************************************)
RECURSIVE ParseUint(_, _)
ParseUint(s, acc) ==
    IF s = <<>> THEN acc ELSE ParseUint(Tail(s), 10 * acc + DigitVal(Head(s)))

RECURSIVE FormatUint(_)
FormatUint(n) ==
    IF n < 10 THEN <<Digits[n + 1]>>
    ELSE FormatUint(n \div 10) \o <<Digits[(n % 10) + 1]>>

IsNumber(s) == s # <<>> /\ \A i \in 1..Len(s) : IsDigit(s[i])

\* ParseVersion: semver.NewVersion accepts v?MAJOR(.MINOR)?(.PATCH)? and
\* Version.String() prints MAJOR.MINOR.PATCH without the v (pre-release and
\* build metadata are outside the strings of this model)
ParseVersion(s) ==
    LET t == IF s # <<>> /\ Head(s) = "v" THEN Tail(s) ELSE s
        f == SplitOn(t, ".")
        num(i) == IF i <= Len(f) THEN ParseUint(f[i], 0) ELSE 0
    IN  IF Len(f) <= 3 /\ \A i \in 1..Len(f) : IsNumber(f[i])
        THEN [err |-> "nil",
              v |-> FormatUint(num(1)) \o <<".">> \o FormatUint(num(2))
                        \o <<".">> \o FormatUint(num(3))]
        ELSE [err |-> "ErrInvalidSemVer", v |-> <<>>]

\* unarchiveRenamer: drop the first field of the entry's name
unarchiveRenamer(p) ==
    LET parts == Split(p) IN JoinSep(Tail(parts))

(***************************************************************************)
(* the file system of afero.OsFs: a function from cleaned absolute paths   *)
(* to nodes.  A node is a directory, a regular file with its data, or a    *)
(* symbolic link with its target in data; w is the owner's write           *)
(* permission, the one mode bit the operations below depend on.           *)
(***************************************************************************)
Root == <<Sep>>

DirNode(w) == [kind |-> "dir", w |-> w, data |-> <<>>]

FileNode(w, data) == [kind |-> "file", w |-> w, data |-> data]

LinkNode(target) == [kind |-> "link", w |-> TRUE, data |-> target]

Exists(fs, p) == p \in DOMAIN fs

IsKind(fs, p, k) == Exists(fs, p) /\ fs[p].kind = k

Put(fs, p, node) == [q \in DOMAIN fs \cup {p} |-> IF q = p THEN node ELSE fs[q]]

Drop(fs, p) == [q \in DOMAIN fs \ {p} |-> fs[q]]

Children(fs, d) == {q \in DOMAIN fs : q # d /\ Dir(q) = d}

\* symbolic links followed before the kernel answers ELOOP
MaxSymlinks == 3

\* the kernel's path walk: cur is the directory reached, rest the components
\* left; links are followed in the middle of a path, and at its end when
\* followLast.  ok: the path's directory exists; path: where the path leads
RECURSIVE Walk(_, _, _, _, _)
Walk(fs, cur, rest, followLast, fuel) ==
    IF rest = <<>> THEN [ok |-> TRUE, path |-> cur]
    ELSE IF ~IsKind(fs, cur, "dir") THEN [ok |-> FALSE, path |-> cur]
    ELSE LET next == IF cur = Root THEN cur \o Head(rest)
                     ELSE cur \o <<Sep>> \o Head(rest)
             more == Tail(rest)
         IN  IF IsKind(fs, next, "link") /\ (more # <<>> \/ followLast)
             THEN IF fuel = 0 THEN [ok |-> FALSE, path |-> next]
                  ELSE Walk(fs, Root,
                            CleanParts(Split(fs[next].data), TRUE, <<>>) \o more,
                            followLast, fuel - 1)
             ELSE Walk(fs, next, more, followLast, fuel)

Resolve(fs, p, followLast) ==
    Walk(fs, Root, CleanParts(Split(p), TRUE, <<>>), followLast, MaxSymlinks)

\* may the process create or remove an entry of directory d
MayWrite(fs, d, priv) == priv \/ fs[d].w

\* os.Stat
Stat(fs, p) ==
    LET r == Resolve(fs, p, TRUE)
    IN  IF r.ok /\ Exists(fs, r.path) THEN [err |-> "nil", node |-> fs[r.path]]
        ELSE [err |-> "ENOENT", node |-> DirNode(FALSE)]

\* os.Lstat
Lstat(fs, p) ==
    LET r == Resolve(fs, p, FALSE)
    IN  IF r.ok /\ Exists(fs, r.path) THEN [err |-> "nil", node |-> fs[r.path]]
        ELSE [err |-> "ENOENT", node |-> DirNode(FALSE)]

\* afero.DirExists: the path, links followed, is a directory
DirExists(fs, p) ==
    LET st == Stat(fs, p) IN st.err = "nil" /\ st.node.kind = "dir"

\* os.Mkdir
Mkdir(fs, p, w, priv) ==
    LET r == Resolve(fs, p, FALSE)
    IN  IF ~r.ok THEN [fs |-> fs, err |-> "ENOENT"]
        ELSE IF Exists(fs, r.path) THEN [fs |-> fs, err |-> "EEXIST"]
        ELSE IF ~MayWrite(fs, Dir(r.path), priv) THEN [fs |-> fs, err |-> "EACCES"]
        ELSE [fs |-> Put(fs, r.path, DirNode(w)), err |-> "nil"]

\* os.MkdirAll: nothing to do for a directory, ENOTDIR for another file,
\* otherwise the parent first and then Mkdir, whose error stands unless the
\* path is a directory after all
RECURSIVE MkdirAll(_, _, _, _)
MkdirAll(fs, p, w, priv) ==
    LET st == Stat(fs, p)
    IN  IF st.err = "nil"
        THEN [fs |-> fs, err |-> IF st.node.kind = "dir" THEN "nil" ELSE "ENOTDIR"]
        ELSE LET up == IF p = Root THEN [fs |-> fs, err |-> "nil"]
                       ELSE MkdirAll(fs, Dir(p), w, priv)
             IN  IF up.err # "nil" THEN up
                 ELSE LET mk == Mkdir(up.fs, p, w, priv)
                          ls == Lstat(up.fs, p)
                      IN  IF mk.err # "nil" /\ ls.err = "nil" /\ ls.node.kind = "dir"
                          THEN [fs |-> up.fs, err |-> "nil"]
                          ELSE mk

\* OpenFile(p, O_CREATE|O_TRUNC|O_WRONLY, mode): an existing file is
\* truncated and keeps its mode, a missing one is created in its directory
OpenFile(fs, p, w, priv) ==
    LET r == Resolve(fs, p, TRUE)
    IN  IF ~r.ok THEN [fs |-> fs, err |-> "ENOENT", path |-> p]
        ELSE IF IsKind(fs, r.path, "dir") THEN [fs |-> fs, err |-> "EISDIR", path |-> p]
        ELSE IF Exists(fs, r.path)
        THEN IF priv \/ fs[r.path].w
             THEN [fs |-> Put(fs, r.path, FileNode(fs[r.path].w, <<>>)),
                   err |-> "nil", path |-> r.path]
             ELSE [fs |-> fs, err |-> "EACCES", path |-> p]
        ELSE IF ~MayWrite(fs, Dir(r.path), priv)
        THEN [fs |-> fs, err |-> "EACCES", path |-> p]
        ELSE [fs |-> Put(fs, r.path, FileNode(w, <<>>)), err |-> "nil", path |-> r.path]

\* the bytes written through an open file
WriteData(fs, path, data) == Put(fs, path, FileNode(fs[path].w, data))

\* os.Remove: unlink, or rmdir of an empty directory; a link is not followed
Remove(fs, p, priv) ==
    LET r == Resolve(fs, p, FALSE)
    IN  IF ~r.ok \/ ~Exists(fs, r.path) THEN [fs |-> fs, err |-> "ENOENT"]
        ELSE IF ~MayWrite(fs, Dir(r.path), priv) THEN [fs |-> fs, err |-> "EACCES"]
        ELSE IF IsKind(fs, r.path, "dir") /\ Children(fs, r.path) # {}
        THEN [fs |-> fs, err |-> "ENOTEMPTY"]
        ELSE [fs |-> Drop(fs, r.path), err |-> "nil"]

\* OsFs.SymlinkIfPossible(target, p): os.Symlink
Symlink(fs, target, p, priv) ==
    LET r == Resolve(fs, p, FALSE)
    IN  IF ~r.ok THEN [fs |-> fs, err |-> "ENOENT"]
        ELSE IF Exists(fs, r.path) THEN [fs |-> fs, err |-> "EEXIST"]
        ELSE IF ~MayWrite(fs, Dir(r.path), priv) THEN [fs |-> fs, err |-> "EACCES"]
        ELSE [fs |-> Put(fs, r.path, LinkNode(target)), err |-> "nil"]

\* OsFs.ReadlinkIfPossible(p): os.Readlink
Readlink(fs, p) ==
    LET r == Resolve(fs, p, FALSE)
    IN  IF r.ok /\ IsKind(fs, r.path, "link")
        THEN [err |-> "nil", target |-> fs[r.path].data]
        ELSE [err |-> "EINVAL", target |-> <<>>]

\* the characters of the model's strings, in byte order
Chars == <<".", "/", "0", "1", "2", "3", "4", "5", "6", "7", "8", "9",
           "V", "b", "c", "e", "g", "n", "o", "r", "t", "u", "v", "x">>

Ord(c) == CHOOSE i \in 1..Len(Chars) : Chars[i] = c

\* a < b as Go compares strings
RECURSIVE StrLess(_, _)
StrLess(a, b) ==
    IF b = <<>> THEN FALSE
    ELSE IF a = <<>> THEN TRUE
    ELSE IF Head(a) = Head(b) THEN StrLess(Tail(a), Tail(b))
    ELSE Ord(Head(a)) < Ord(Head(b))

\* sort.Sort(byName(list))
RECURSIVE SortByName(_)
SortByName(S) ==
    IF S = {} THEN <<>>
    ELSE LET m == CHOOSE x \in S : \A y \in S \ {x} : StrLess(Base(x), Base(y))
         IN  <<m>> \o SortByName(S \ {m})

\* afero.ReadDir: the entries of a directory sorted by name, each as Lstat
\* sees it (a symbolic link is not a directory)
ReadDir(fs, p) ==
    LET r == Resolve(fs, p, TRUE)
    IN  IF r.ok /\ IsKind(fs, r.path, "dir")
        THEN [err |-> "nil", fis |-> SortByName(Children(fs, r.path))]
        ELSE [err |-> "ENOENT", fis |-> <<>>]

(***************************************************************************)
(* the executor                                                            *)
(***************************************************************************)
InstallPath == <<"/", "r">>

CurrentName == <<"c", "u", "r", "r", "e", "n", "t">>

RECURSIVE DirNames(_, _)
DirNames(fs, fis) ==
    IF fis = <<>> THEN <<>>
    ELSE IF fs[Head(fis)].kind = "dir"
         THEN <<Base(Head(fis))>> \o DirNames(fs, Tail(fis))
         ELSE DirNames(fs, Tail(fis))

\* executor.list: the names of the entries of InstallPath that are directories
list(fs) ==
    LET rd == ReadDir(fs, InstallPath)
    IN  IF rd.err # "nil" THEN [err |-> rd.err, versions |-> <<>>]
        ELSE [err |-> "nil", versions |-> DirNames(fs, rd.fis)]

\* executor.current: the last element of the link's target, parsed again
current(fs) ==
    LET link == Readlink(fs, Join(InstallPath, CurrentName))
    IN  IF link.err # "nil" THEN [err |-> "errNoCurrentVersion", v |-> <<>>]
        ELSE ParseVersion(Base(link.target))

NoFault == [kind |-> "none", at |-> 0]

\* Use with the old entry removed before the version's directory is looked for
UseRemovesFirst(fs, version, priv, fault) ==
    LET versionPath == Join(InstallPath, version)
        currentPath == Join(InstallPath, CurrentName)
        rm == Remove(fs, currentPath, priv)
    IN  IF ~DirExists(rm.fs, versionPath)
        THEN [fs |-> rm.fs, err |-> "ErrVersionNotInstalled"]
        ELSE IF fault.kind = "symlink" THEN [fs |-> rm.fs, err |-> "EIO"]
        ELSE Symlink(rm.fs, versionPath, currentPath, priv)

\* executor.Use: ErrVersionNotInstalled unless the version's directory
\* exists; then the old entry is removed, the result ignored, and the link
\* made, its error returned.  fault "symlink": the symlink call fails for
\* the environment's reasons (EIO, ENOSPC)
Use(fs, version, priv, fault) ==
    LET versionPath == Join(InstallPath, version)
        currentPath == Join(InstallPath, CurrentName)
    IN  IF ~DirExists(fs, versionPath)
        THEN [fs |-> fs, err |-> "ErrVersionNotInstalled"]
        ELSE LET rm == Remove(fs, currentPath, priv)
                 ln == IF fault.kind = "symlink" THEN [fs |-> rm.fs, err |-> "EIO"]
                       ELSE Symlink(rm.fs, versionPath, currentPath, priv)
             IN  ln

\* executor.download: the request fails (fault "do") or the copy of the
\* response's body does (fault "body"); otherwise the body is in the buffer,
\* whatever the response's status
download(resp, fault) ==
    IF fault.kind = "do" THEN [err |-> "ErrDo", buf |-> resp.body]
    ELSE IF fault.kind = "body" THEN [err |-> "ErrUnexpectedEOF", buf |-> resp.body]
    ELSE [err |-> "nil", buf |-> resp.body]

\* executor.dlArchive
dlArchive(resp, fault) ==
    LET dl == download(resp, fault)
    IN  IF dl.err # "nil" THEN [err |-> "ErrDownload", buf |-> dl.buf]
        ELSE [err |-> "nil", buf |-> dl.buf]

\* what a failed copy or a failed write-back leaves of a file's data
Partial(data) == SubSeq(data, 1, Len(data) - 1)

\* the loop of unTarGzip from entry i on.  The environment's faults at entry
\* fault.at: "next" (the tar reader fails), "mkdir", "open", "copy" (the
\* system call fails with EIO) and "close" (the write-back fails and Close
\* reports it, which the code ignores)
RECURSIVE ExtractFrom(_, _, _, _, _, _)
ExtractFrom(fs, entries, i, target, priv, fault) ==
    IF fault.at = i /\ fault.kind = "next" THEN [fs |-> fs, err |-> "ErrHeader"]
    ELSE IF i > Len(entries) THEN [fs |-> fs, err |-> "nil"]
    ELSE LET e == entries[i]
             filename == unarchiveRenamer(e.name)
             p == Join(target, filename)
             hit(k) == fault.at = i /\ fault.kind = k
         IN  IF e.dir
             THEN LET mk == IF hit("mkdir") THEN [fs |-> fs, err |-> "EIO"]
                            ELSE MkdirAll(fs, p, e.w, priv)
                  IN  IF mk.err # "nil" THEN mk
                      ELSE ExtractFrom(mk.fs, entries, i + 1, target, priv, fault)
             ELSE LET op == IF hit("open") THEN [fs |-> fs, err |-> "EIO", path |-> p]
                            ELSE OpenFile(fs, p, e.w, priv)
                  IN  IF op.err # "nil" THEN [fs |-> fs, err |-> op.err]
                      ELSE IF hit("copy")
                      THEN [fs |-> WriteData(op.fs, op.path, Partial(e.data)),
                            err |-> "EIO"]
                      ELSE IF hit("close")
                      THEN ExtractFrom(WriteData(op.fs, op.path, Partial(e.data)),
                                       entries, i + 1, target, priv, fault)
                      ELSE ExtractFrom(WriteData(op.fs, op.path, e.data),
                                       entries, i + 1, target, priv, fault)

\* unTarGzip: the error of gzip.NewReader is dropped, so a buffer that is no
\* gzip stream leaves a nil reader, and the first tr.Next panics on it
unTarGzip(fs, buf, target, priv, fault) ==
    IF ~buf.gzip THEN [fs |-> fs, err |-> "panic"]
    ELSE ExtractFrom(fs, buf.entries, 1, target, priv, fault)

\* executor.Install.  handed: the buffer reached unTarGzip
Install(fs, version, resp, priv, fault) ==
    LET installPath == Join(InstallPath, version)
        archive == dlArchive(resp, fault)
    IN  IF archive.err # "nil"
        THEN [fs |-> fs, err |-> archive.err, handed |-> FALSE]
        ELSE LET mk == IF fault.at = 0 /\ fault.kind = "mkdir"
                       THEN [fs |-> fs, err |-> "EIO"]
                       ELSE MkdirAll(fs, installPath, TRUE, priv)
             IN  IF mk.err # "nil"
                 THEN [fs |-> mk.fs, err |-> "ErrInstallDir", handed |-> FALSE]
                 ELSE LET un == unTarGzip(mk.fs, archive.buf, installPath, priv, fault)
                      IN  [fs |-> un.fs,
                           err |-> IF un.err \in {"nil", "panic"} THEN un.err
                                   ELSE "ErrExtract",
                           handed |-> TRUE]

(***************************************************************************)
(* the environment: command lines, the server's responses, faults          *)
(***************************************************************************)
\* the argument of install and use: v1 is version 1.0.0, 2.0 is 2.0.0 and go
\* is no version
Args == {<<"v", "1">>, <<"2", ".", "0">>, <<"g", "o">>}

DirEntry(name, w) == [name |-> name, dir |-> TRUE, w |-> w, data |-> <<>>]

FileEntry(name, w, data) == [name |-> name, dir |-> FALSE, w |-> w, data |-> data]

\* go/, go/b/, go/b/g: a release archive, directories before their files
GoodTar ==
    [id |-> "good", gzip |-> TRUE,
     entries |-> <<DirEntry(<<"g", "o", "/">>, TRUE),
                   DirEntry(<<"g", "o", "/", "b", "/">>, TRUE),
                   FileEntry(<<"g", "o", "/", "b", "/", "g">>, TRUE, <<1, 2>>)>>]

\* go/b/g, go/V: files only, no entry for a directory
BareTar ==
    [id |-> "bare", gzip |-> TRUE,
     entries |-> <<FileEntry(<<"g", "o", "/", "b", "/", "g">>, TRUE, <<1, 2>>),
                   FileEntry(<<"g", "o", "/", "V">>, TRUE, <<3>>)>>]

\* go/, go/V with mode 0444
ReadOnlyTar ==
    [id |-> "readonly", gzip |-> TRUE,
     entries |-> <<DirEntry(<<"g", "o", "/">>, TRUE),
                   FileEntry(<<"g", "o", "/", "V">>, FALSE, <<3>>)>>]

\* go/../current/x/: a name that climbs out of the wrapper
SlipTar ==
    [id |-> "slip", gzip |-> TRUE,
     entries |-> <<DirEntry(<<"g", "o", "/", ".", ".", "/", "c", "u", "r", "r",
                              "e", "n", "t", "/", "x", "/">>, TRUE)>>]

\* go/../2.0.0: a file beside the version's directory
SlipFileTar ==
    [id |-> "slipfile", gzip |-> TRUE,
     entries |-> <<FileEntry(<<"g", "o", "/", ".", ".", "/", "2", ".", "0", ".", "0">>,
                             TRUE, <<3>>)>>]

\* /e: a rooted name
RootedTar ==
    [id |-> "rooted", gzip |-> TRUE,
     entries |-> <<FileEntry(<<"/", "e">>, TRUE, <<3>>)>>]

\* the page of an error response: no gzip stream
Html == [id |-> "html", gzip |-> FALSE, entries |-> <<>>]

Tars == {GoodTar, BareTar, ReadOnlyTar, SlipTar, SlipFileTar, RootedTar}

Responses ==
    [status : {200}, body : Tars \cup {Html}] \cup [status : {404}, body : {Html, GoodTar}]

\* the responses of the specification SwitchSpec
SwitchResponses ==
    [status : {200}, body : {GoodTar, SlipTar, SlipFileTar}]
        \cup [status : {404}, body : {Html}]

\* the faults the environment can inject into an install of this response:
\* the request or the copy of its body fails, the install directory cannot
\* be made, and, while the release archive is extracted, any one of its steps
InstallFaults(resp) ==
    {NoFault, [kind |-> "do", at |-> 0], [kind |-> "body", at |-> 0],
     [kind |-> "mkdir", at |-> 0]}
    \cup IF resp.body # GoodTar THEN {}
         ELSE {[kind |-> "next", at |-> i] : i \in 1..(Len(resp.body.entries) + 1)}
              \cup {[kind |-> "mkdir", at |-> i] :
                      i \in {j \in 1..Len(resp.body.entries) : resp.body.entries[j].dir}}
              \cup {[kind |-> k, at |-> i] :
                      k \in {"open", "copy", "close"},
                      i \in {j \in 1..Len(resp.body.entries) : ~resp.body.entries[j].dir}}

UseFaults == {NoFault, [kind |-> "symlink", at |-> 0]}

\* commands run in one behaviour of Spec
MaxOps == 2

\* commands run in one behaviour of SwitchSpec
MaxSwitchOps == 5

(***************************************************************************)
(* the state: the file system, whether the process is privileged, the      *)
(* number of commands run, and the last command with its result            *)
(***************************************************************************)
VARIABLES fs, priv, ops, last

vars == <<fs, priv, ops, last>>

Result(op, v, err, out, status, body, fault, handed) ==
    [op |-> op, v |-> v, err |-> err, out |-> out, status |-> status,
     body |-> body, fault |-> fault, handed |-> handed]

\* an install root that exists and is empty
Init ==
    /\ fs = (Root :> DirNode(FALSE)) @@ (InstallPath :> DirNode(TRUE))
    /\ priv \in BOOLEAN
    /\ ops = 0
    /\ last = Result("none", <<>>, "nil", <<>>, 0, "none", "none", FALSE)

\* installCmd: dfctl-go install <arg>
CmdInstall(arg, resp, fault, max) ==
    /\ ops < max
    /\ ops' = ops + 1
    /\ LET pv == ParseVersion(arg)
       IN  IF pv.err # "nil"
           THEN /\ fs' = fs
                /\ last' = Result("install", <<>>, pv.err, <<>>, 0, "none", "none", FALSE)
           ELSE LET r == Install(fs, pv.v, resp, priv, fault)
                IN  /\ fs' = r.fs
                    /\ last' = Result("install", pv.v, r.err, <<>>, resp.status,
                                      resp.body.id, fault.kind, r.handed)
    /\ UNCHANGED priv

\* useCmd: dfctl-go use <arg>
CmdUse(arg, fault, max) ==
    /\ ops < max
    /\ ops' = ops + 1
    /\ LET pv == ParseVersion(arg)
       IN  IF pv.err # "nil"
           THEN /\ fs' = fs
                /\ last' = Result("use", <<>>, pv.err, <<>>, 0, "none", "none", FALSE)
           ELSE LET r == Use(fs, pv.v, priv, fault)
                IN  /\ fs' = r.fs
                    /\ last' = Result("use", pv.v, r.err, <<>>, 0, "none",
                                      fault.kind, FALSE)
    /\ UNCHANGED priv

\* listCmd: dfctl-go list
CmdList(max) ==
    /\ ops < max
    /\ ops' = ops + 1
    /\ LET r == list(fs)
       IN  last' = Result("list", <<>>, r.err, r.versions, 0, "none", "none", FALSE)
    /\ UNCHANGED <<fs, priv>>

\* currentCmd: dfctl-go current
CmdCurrent(max) ==
    /\ ops < max
    /\ ops' = ops + 1
    /\ LET r == current(fs)
       IN  last' = Result("current", <<>>, r.err, r.v, 0, "none", "none", FALSE)
    /\ UNCHANGED <<fs, priv>>

\* every command, response and fault
Next ==
    \/ \E arg \in Args, resp \in Responses :
         \E fault \in InstallFaults(resp) : CmdInstall(arg, resp, fault, MaxOps)
    \/ \E arg \in Args, fault \in UseFaults : CmdUse(arg, fault, MaxOps)
    \/ CmdList(MaxOps)
    \/ CmdCurrent(MaxOps)

Spec == Init /\ [][Next]_vars

\* longer runs of commands whose installs meet no fault
SwitchNext ==
    \/ \E arg \in Args, resp \in SwitchResponses : CmdInstall(arg, resp, NoFault, MaxSwitchOps)
    \/ \E arg \in Args, fault \in UseFaults : CmdUse(arg, fault, MaxSwitchOps)
    \/ CmdList(MaxSwitchOps)
    \/ CmdCurrent(MaxSwitchOps)

SwitchSpec == Init /\ [][SwitchNext]_vars

(***************************************************************************)
(* the claims                                                              *)
(***************************************************************************)
CurrentPath == Join(InstallPath, CurrentName)

VersionPath(v) == Join(InstallPath, v)

\* q is d or lies below it
Under(q, d) == q = d \/ (Len(q) > Len(d) /\ SubSeq(q, 1, Len(d) + 1) = d \o <<Sep>>)

BodyById(id) == CHOOSE b \in Tars \cup {Html} : b.id = id

\* the step is a run of executor.Use / executor.Install on a parsed version
UseStep == ops' = ops + 1 /\ last'.op = "use" /\ last'.v # <<>>

InstallStep == ops' = ops + 1 /\ last'.op = "install" /\ last'.v # <<>>

\* C1: Use of a version whose directory does not exist returns
\* ErrVersionNotInstalled and changes nothing in the file system: the entry
\* current is afterwards what it was, a link with the same target or absent.
C1_UseNotInstalled ==
    [][(UseStep /\ ~DirExists(fs, VersionPath(last'.v)))
         => /\ last'.err = "ErrVersionNotInstalled"
            /\ fs' = fs
            /\ Lstat(fs', CurrentPath) = Lstat(fs, CurrentPath)
            /\ Readlink(fs', CurrentPath) = Readlink(fs, CurrentPath)]_vars

\* a Use of a version that is not installed has run while current was a link
C1_Witness ==
    /\ last.op = "use"
    /\ last.err = "ErrVersionNotInstalled"
    /\ IsKind(fs, CurrentPath, "link")

\* C2: after Use(v1) and then Use(v2), both versions installed and no fault
\* injected, current is a link to the directory of v2, not to that of v1, and
\* executor.current succeeds and reports v2.
C2_SecondUseWins ==
    [][(/\ UseStep
        /\ last.op = "use" /\ last.v # <<>> /\ last.v # last'.v
        /\ last.fault = "none" /\ last'.fault = "none"
        /\ DirExists(fs, VersionPath(last.v))
        /\ DirExists(fs, VersionPath(last'.v)))
         => /\ Readlink(fs', CurrentPath) = [err |-> "nil", target |-> VersionPath(last'.v)]
            /\ Readlink(fs', CurrentPath).target # VersionPath(last.v)
            /\ current(fs') = [err |-> "nil", v |-> last'.v]]_vars

\* the names list reports
Listed(out) == {out[i] : i \in 1..Len(out)}

\* C3: list reports exactly the names of the directories of the install root
\* other than current, and never the name current, whatever current is.
C3_ListOmitsCurrent ==
    (last.op = "list" /\ last.err = "nil")
        => /\ CurrentName \notin Listed(last.out)
           /\ Listed(last.out) =
                {Base(q) : q \in {c \in Children(fs, InstallPath) :
                                    fs[c].kind = "dir" /\ c # CurrentPath}}

\* current designates a version: it is a symbolic link
IsSet(f) == IsKind(f, CurrentPath, "link")

\* C7: once current is set, it is still set after every command, whatever
\* the command returns.
C7_NeverUnset == [][IsSet(fs) => IsSet(fs')]_vars

\* C9: current is absent, or a link to a directory that exists and is an
\* entry of the install root.
C9_CurrentResolves ==
    \/ ~Exists(fs, CurrentPath)
    \/ /\ IsKind(fs, CurrentPath, "link")
       /\ Dir(fs[CurrentPath].data) = InstallPath
       /\ IsKind(fs, fs[CurrentPath].data, "dir")

\* where extraction into target puts an entry
EntryPath(target, e) == Join(target, unarchiveRenamer(e.name))

\* every entry of the archive is under target at its name without the wrapper,
\* a file with the entry's data
Holds(f, target, entries) ==
    \A i \in 1..Len(entries) :
        LET st == Stat(f, EntryPath(target, entries[i]))
        IN  /\ st.err = "nil"
            /\ IF entries[i].dir THEN st.node.kind = "dir"
               ELSE st.node.kind = "file" /\ st.node.data = entries[i].data

\* nothing is under target but the archive's entries and their directories
Only(f, target, entries) ==
    \A q \in DOMAIN f :
        (Under(q, target) /\ q # target)
            => \E i \in 1..Len(entries) : Under(EntryPath(target, entries[i]), q)

\* every name of the archive starts with the one wrapper segment go and has
\* no other . or .. segment
Wrapped(entries) ==
    \A i \in 1..Len(entries) :
        LET parts == Split(entries[i].name)
        IN  /\ parts[1] = <<"g", "o">>
            /\ \A j \in 1..Len(parts) : parts[j] \notin {<<".">>, <<".", ".">>}

\* the directory is absent, or present and empty
Fresh(f, d) == ~Exists(f, d) \/ (IsKind(f, d, "dir") /\ Children(f, d) = {})

\* C4: an archive whose names all start with the wrapper, with or without
\* entries for the directories of its files, extracts without error into a
\* fresh directory, which then holds exactly the archive's files and
\* directories, the wrapper removed, each file with its entry's data.
C4_ExtractRoundTrip ==
    [][(/\ InstallStep
        /\ last'.status = 200 /\ last'.fault = "none"
        /\ BodyById(last'.body).gzip
        /\ Wrapped(BodyById(last'.body).entries)
        /\ Fresh(fs, VersionPath(last'.v)))
         => /\ last'.err = "nil"
            /\ Holds(fs', VersionPath(last'.v), BodyById(last'.body).entries)
            /\ Only(fs', VersionPath(last'.v), BodyById(last'.body).entries)]_vars

\* C5: Install ends with an error value whenever a step of it failed, and
\* with success only when every entry of the archive is written completely.
C5_SuccessMeansComplete ==
    (last.op = "install" /\ last.v # <<>>)
        => /\ last.err # "panic"
           /\ (last.fault # "none" => last.err # "nil")
           /\ (last.err = "nil"
                 => /\ BodyById(last.body).gzip
                    /\ Holds(fs, VersionPath(last.v), BodyById(last.body).entries))

\* C6: a request that fails, a body that cannot be read and a response that
\* is no success each make the download an error, and the body never
\* reaches the extraction.
C6_FailedDownloadIsError ==
    (/\ last.op = "install" /\ last.v # <<>>
     /\ (last.status # 200 \/ last.fault \in {"do", "body"}))
        => last.err = "ErrDownload" /\ ~last.handed

\* the archive extracts without error into a new directory
ExtractsFresh(body) ==
    LET d == VersionPath(<<"0">>)
        f == (Root :> DirNode(FALSE)) @@ (InstallPath :> DirNode(TRUE)) @@ (d :> DirNode(TRUE))
    IN  unTarGzip(f, body, d, FALSE, NoFault).err = "nil"

\* C8: Install of a version whose download and extraction succeed (a wrapped
\* archive that extracts without error into a new directory) succeeds
\* when the version's directory is absent, when it is an empty directory and
\* when the same Install has just succeeded; the directory then holds the
\* archive's content.
C8_InstallIdempotent ==
    [][(/\ InstallStep
        /\ last'.status = 200 /\ last'.fault = "none"
        /\ Wrapped(BodyById(last'.body).entries)
        /\ ExtractsFresh(BodyById(last'.body))
        /\ \/ Fresh(fs, VersionPath(last'.v))
           \/ /\ last.op = "install" /\ last.err = "nil" /\ last.v = last'.v
              /\ last.body = last'.body /\ last.fault = "none")
         => /\ last'.err = "nil"
            /\ IsKind(fs', VersionPath(last'.v), "dir")
            /\ Holds(fs', VersionPath(last'.v), BodyById(last'.body).entries)]_vars

\* C10: every directory and file an extraction creates or changes is the
\* version's directory or lies below it.
C10_ExtractStaysInside ==
    [][InstallStep
         => \A q \in DOMAIN fs' :
                (~Exists(fs, q) \/ fs'[q] # fs[q]) => Under(q, VersionPath(last'.v))]_vars

====
